---------------------------- MODULE Spec2Model ----------------------------
(***************************************************************************)
(* Party-distribution aggregation of the DIP tool layer:                   *)
(* get_party_distribution of src/src/backend/dip_server.py (the MCP server *)
(* tool) and of src/src/frontend/chat_with_mcp.py (the chat agent tool).   *)
(*                                                                         *)
(* A call is a cursor-paginated fetch of person records followed by a      *)
(* tally, a ranking and a percentage computation.  The call blocks on each *)
(* page request, so one call is modelled by the steps Call, SendRequest    *)
(* and one of RecvOk / RecvFail per page; the tally and ranking run in the *)
(* step that receives the last page.                                       *)
(*                                                                         *)
(* Representation.  Python None is the string None; a JSON key that is     *)
(* absent and read with dict.get(key) is None as well.  A percentage is an *)
(* integer number of hundredths (6667 is 66.67).  A Python dict is the     *)
(* sequence of its items in insertion order.                               *)
(***************************************************************************)
EXTENDS Integers, Sequences, FiniteSets, TLC

(***************************************************************************)
(* Bounds of the model and program constants.                              *)
(***************************************************************************)
\* records the upstream double holds in the runaway-pagination scenario
MaxRecordsRunaway == 1
\* records the upstream double holds in the tally scenario
MaxRecords == 3
\* pages the upstream double serves in the tally scenario
MaxPages == 2
\* records / pages the upstream double serves to each of two calls
MaxRecordsTwo == 1
MaxPagesTwo == 2
\* records the upstream double holds in the ceiling scenario
MaxRecordsCeiling == 2
\* records the upstream double serves in the attribution scenario
MaxRecordsAttribution == 1
\* records the upstream double serves in the label scenario
MaxRecordsLabels == 3

\* `if pages_fetched > 100` of the pagination loop
PageLimit == 100
\* a double that never stops handing out fresh cursors
Runaway == PageLimit + 5
\* the request counter of the model saturates here
ReqCap == PageLimit + 5

None == "None"
Calls == {1, 2}
Periods == {20, 21}
Impls == {"server", "chat"}
\* non-empty cursor tokens of the upstream
Cursors == {"c1", "c2"}
\* values of data.get('cursor'): absent or null, empty, or a token
CursorValues == {None, ""} \cup Cursors

\* Python truthiness of None and of a string
Truthy(v) == v # None /\ v # ""

Min(a, b) == IF a <= b THEN a ELSE b

(***************************************************************************)
(* Person records of the upstream.  fraktion is a tagged value: a list of  *)
(* strings, a string, or absent; person_roles is a sequence of roles, each *)
(* with the set of periods it applies to and a fraktion (None if missing). *)
(***************************************************************************)
FList(l) == [kind |-> "list", list |-> l, str |-> ""]
FStr(s) == [kind |-> "str", list |-> <<>>, str |-> s]
FAbsent == [kind |-> "absent", list |-> <<>>, str |-> ""]
FNull == [kind |-> "null", list |-> <<>>, str |-> ""]
Role(periods, f) == [wahlperiode_nummer |-> periods, fraktion |-> f]
Person(f, roles) == [fraktion |-> f, person_roles |-> roles]

Records ==
    { Person(FStr("AfD"), <<>>),
      Person(FList(<<"SPD", "Linke">>), <<Role({21}, "CDU")>>),
      Person(FAbsent, <<Role({20}, "fraktionslos"), Role({21}, None), Role({20, 21}, "CDU")>>),
      Person(FList(<<>>), <<Role({20}, "SPD")>>),
      Person(FAbsent, <<>>) }

\* every shape of the fraktion field with every short list of roles
AttributionFraktions ==
    { FAbsent, FNull, FList(<<>>), FList(<<"", "SPD">>), FList(<<"SPD", "Linke">>),
      FStr(""), FStr("AfD") }

AttributionRoles ==
    { Role({20}, "fraktionslos"), Role({21}, None), Role({21}, ""),
      Role({20, 21}, "CDU"), Role({21}, "SPD") }

AttributionRoleLists ==
    {<<>>} \cup {<<r>> : r \in AttributionRoles}
           \cup {<<r, q>> : r \in AttributionRoles, q \in AttributionRoles}

AttributionRecords ==
    {Person(f, roles) : f \in AttributionFraktions, roles \in AttributionRoleLists}

\* records that reach one label by different routes: an empty first element
\* with and without a role, an empty string with an empty role, a direct
\* label, and the default label given as a direct one
LabelRecords ==
    { Person(FList(<<"", "SPD">>), <<>>),
      Person(FList(<<"", "SPD">>), <<Role({21}, "CDU")>>),
      Person(FStr(""), <<Role({21}, "")>>),
      Person(FStr("CDU"), <<>>),
      Person(FStr("Unbekannt"), <<>>),
      Person(FAbsent, <<Role({20}, "SPD"), Role({21}, "AfD")>>) }

\* code points of the party labels, for Python's string comparison
CodePoints(s) ==
    CASE s = "" -> <<>>
      [] s = "AfD" -> <<65, 102, 68>>
      [] s = "CDU" -> <<67, 68, 85>>
      [] s = "Linke" -> <<76, 105, 110, 107, 101>>
      [] s = "SPD" -> <<83, 80, 68>>
      [] s = "Unbekannt" -> <<85, 110, 98, 101, 107, 97, 110, 110, 116>>
      [] s = "fraktionslos" -> <<102, 114, 97, 107, 116, 105, 111, 110, 115, 108, 111, 115>>

\* Python's < on sequences of code points
RECURSIVE SeqLess(_, _)
SeqLess(a, b) ==
    IF b = <<>> THEN FALSE
    ELSE IF a = <<>> THEN TRUE
    ELSE IF Head(a) # Head(b) THEN Head(a) < Head(b)
    ELSE SeqLess(Tail(a), Tail(b))

\* Python's < on str
StrLess(a, b) == SeqLess(CodePoints(a), CodePoints(b))

(***************************************************************************)
(* Party attribution of one member (the body of `for member in            *)
(* all_members` up to the default).                                        *)
(***************************************************************************)
\* the exception of an index out of range, in place of the value
IndexError == "IndexError"

\* fraktion[0]
First(list) == IF list = <<>> THEN IndexError ELSE list[1]

\* party after the direct fraktion check
DirectParty_last(member) ==
    LET fraktion == member.fraktion IN
    IF (fraktion.kind = "list" \/ fraktion.kind = "absent") /\ fraktion.list # <<>>
        THEN fraktion.list[Len(fraktion.list)]
    ELSE IF fraktion.kind = "str" THEN fraktion.str
    ELSE None

\* the direct check without `and fraktion`
DirectParty_unguarded(member) ==
    LET fraktion == member.fraktion IN
    IF fraktion.kind = "list" \/ fraktion.kind = "absent"
        THEN First(fraktion.list)
    ELSE IF fraktion.kind = "str" THEN fraktion.str
    ELSE None

DirectParty(member) ==
    LET fraktion == member.fraktion IN
    IF (fraktion.kind = "list" \/ fraktion.kind = "absent") /\ fraktion.list # <<>>
        THEN First(fraktion.list)
    ELSE IF fraktion.kind = "str" THEN fraktion.str
    ELSE None

\* the attribution of some member raises
TallyRaises(all_members, wahlperiode) ==
    \E i \in 1..Len(all_members) : DirectParty(all_members[i]) = IndexError

\* party after the scan of person_roles
RECURSIVE RoleParty_no_break(_, _)
RoleParty_no_break(roles, wahlperiode) ==
    IF roles = <<>> THEN None
    ELSE LET role == Head(roles)
             later == RoleParty_no_break(Tail(roles), wahlperiode)
         IN IF Truthy(later) THEN later
            ELSE IF wahlperiode \in role.wahlperiode_nummer /\ Truthy(role.fraktion)
                THEN role.fraktion
            ELSE None

RECURSIVE RoleParty(_, _)
RoleParty(roles, wahlperiode) ==
    IF roles = <<>> THEN None
    ELSE LET role == Head(roles) IN
         IF wahlperiode \in role.wahlperiode_nummer /\ Truthy(role.fraktion)
             THEN role.fraktion
         ELSE RoleParty(Tail(roles), wahlperiode)

PartyOf(member, wahlperiode) ==
    LET direct == DirectParty(member)
        party == IF ~Truthy(direct) THEN RoleParty(member.person_roles, wahlperiode)
                 ELSE direct
    IN IF ~Truthy(party) THEN "Unbekannt" ELSE party

(***************************************************************************)
(* Tally: party_counts[party] = party_counts.get(party, 0) + 1.            *)
(***************************************************************************)
Item(party, count) == [party |-> party, count |-> count]

DictGet(d, party, default) ==
    IF \E i \in 1..Len(d) : d[i].party = party
        THEN LET i == CHOOSE j \in 1..Len(d) : d[j].party = party IN d[i].count
    ELSE default

\* a store that adds an item at every assignment
DictSet_append(d, party, count) == Append(d, Item(party, count))

DictSet(d, party, count) ==
    IF \E i \in 1..Len(d) : d[i].party = party
        THEN [i \in 1..Len(d) |-> IF d[i].party = party THEN Item(party, count) ELSE d[i]]
    ELSE Append(d, Item(party, count))

\* a tally that leaves out the records without a party
RECURSIVE TallyFrom_skip(_, _, _)
TallyFrom_skip(party_counts, members, wahlperiode) ==
    IF members = <<>> THEN party_counts
    ELSE LET party == PartyOf(Head(members), wahlperiode) IN
         IF party = "Unbekannt"
             THEN TallyFrom_skip(party_counts, Tail(members), wahlperiode)
         ELSE TallyFrom_skip(DictSet(party_counts, party, DictGet(party_counts, party, 0) + 1),
                             Tail(members), wahlperiode)

RECURSIVE TallyFrom(_, _, _)
TallyFrom(party_counts, members, wahlperiode) ==
    IF members = <<>> THEN party_counts
    ELSE LET party == PartyOf(Head(members), wahlperiode) IN
         TallyFrom(DictSet(party_counts, party, DictGet(party_counts, party, 0) + 1),
                   Tail(members), wahlperiode)

Tally(all_members, wahlperiode) == TallyFrom(<<>>, all_members, wahlperiode)

(***************************************************************************)
(* Ranking: sorted(party_counts.items(), key=lambda x: (-x[1], x[0])).     *)
(***************************************************************************)
\* (-a.count, a.party) < (-b.count, b.party)
KeyLess_count_only(a, b) == a.count > b.count

KeyLess(a, b) ==
    \/ a.count > b.count
    \/ a.count = b.count /\ StrLess(a.party, b.party)

\* stable insertion of x into the sorted sequence s
RECURSIVE InsertSorted(_, _)
InsertSorted(s, x) ==
    IF s = <<>> THEN <<x>>
    ELSE IF KeyLess(x, Head(s)) THEN <<x>> \o s
    ELSE <<Head(s)>> \o InsertSorted(Tail(s), x)

RECURSIVE SortedFrom(_, _)
SortedFrom(acc, items) ==
    IF items = <<>> THEN acc
    ELSE SortedFrom(InsertSorted(acc, Head(items)), Tail(items))

Sorted(items) == SortedFrom(<<>>, items)

(***************************************************************************)
(* Percentage: round((count / total_members) * 100.0, 2), in hundredths.   *)
(* round() rounds to the nearest hundredth, and a half to the even one.    *)
(* An exact half needs a total that is a multiple of 32; from a total of   *)
(* 160 on the double arithmetic may land on either side of such a half.    *)
(***************************************************************************)
Round2_up(count, total) == (count * 10000 + total - 1) \div total

Round2(count, total) ==
    LET n == count * 10000
        q == n \div total
        r == n % total
    IN IF 2 * r > total THEN q + 1
       ELSE IF 2 * r < total THEN q
       ELSE IF q % 2 = 0 THEN q ELSE q + 1

Percentage(count, total_members) ==
    IF total_members > 0 THEN Round2(count, total_members) ELSE 0

Entry(party, count, percentage) ==
    [fraktion |-> party, count |-> count, percentage |-> percentage]

\* total_members = len(all_members)
TotalMembers_distinct(all_members) == Cardinality({all_members[i] : i \in 1..Len(all_members)})

TotalMembers(all_members) == Len(all_members)

\* the statements after the pagination loop
PartyDistribution(all_members, wahlperiode) ==
    LET party_counts == Tally(all_members, wahlperiode)
        total_members == TotalMembers(all_members)
        ranked == Sorted(party_counts)
    IN [i \in 1..Len(ranked) |->
           Entry(ranked[i].party, ranked[i].count,
                 Percentage(ranked[i].count, total_members))]

(***************************************************************************)
(* State.                                                                  *)
(***************************************************************************)
VARIABLES
    scenario,       \* the calls that run and what the upstream double serves
    pc,             \* per call: position in get_party_distribution
    impl,           \* per call: which of the two tools runs
    api_key,        \* per call: DIP_API_KEY as the tool reads it
    wahlperiode,    \* per call: the argument
    all_members,    \* per call: the record accumulator
    cursor,         \* per call: the cursor of the next request
    pages_fetched,  \* per call: the page counter
    result,         \* per call: the returned party_distribution
    outstanding,    \* per call: page requests sent and not yet answered
    last_request,   \* per call: params of the latest page request
    last_response,  \* per call: data.get('cursor') of the latest response
    requests_sent,  \* per call: page requests issued so far
    fetched,        \* per call: records received so far, over all pages
    pages_seen      \* per call: the responses received, when traced

vars == <<scenario, pc, impl, api_key, wahlperiode, all_members, cursor,
          pages_fetched, result, outstanding, last_request, last_response,
          requests_sent, fetched, pages_seen>>

locals == <<impl, api_key, wahlperiode, all_members, cursor, pages_fetched>>

Terminal == {"done", "config_error", "transport_error", "tally_error"}

\* sequences over S of length at most n
RECURSIVE SeqsUpTo(_, _)
SeqsUpTo(S, n) ==
    IF n = 0 THEN {<<>>}
    ELSE LET shorter == SeqsUpTo(S, n - 1) IN
         shorter \cup {Append(s, x) : s \in {t \in shorter : Len(t) = n - 1}, x \in S}

\* the key as the tool obtains it: os.getenv for the server, st.secrets for
\* the chat agent; None when it is not configured
Keys == {None, "", "key"}

\* what a caller may pass and the environment may hold
Inputs == [impl : Impls, key : Keys, wahlperiode : Periods]

NoRequest == [format |-> None, apikey |-> None, wahlperiode |-> 0,
              zuordnung |-> None, cursor |-> None]

\* `if not DIP_API_KEY: raise` of the server; get_api_key of the chat agent,
\* which raises only when the secret is not there
MissingKey_unchecked(i, key) == FALSE

MissingKey(i, key) ==
    IF i = "server" THEN ~Truthy(key) ELSE key = None

\* params of a page request
\* a follow-up request that carries the cursor alone
RequestParams_cursor_only(i, key, w, c) ==
    [format |-> "json", apikey |-> key,
     wahlperiode |-> IF Truthy(c) THEN 0 ELSE w,
     zuordnung |-> IF i = "server" /\ ~Truthy(c) THEN "BT" ELSE None,
     cursor |-> IF Truthy(c) THEN c ELSE None]

RequestParams(i, key, w, c) ==
    [format |-> "json", apikey |-> key, wahlperiode |-> w,
     zuordnung |-> IF i = "server" THEN "BT" ELSE None,
     cursor |-> IF Truthy(c) THEN c ELSE None]

\* all_members.extend(documents)
Extend_replace(members, documents) == documents

\* documents put in front of the accumulator
Extend_prepend(members, documents) == documents \o members

\* one module-level list that every call appends to
Extend_shared(members, documents) == all_members[1] \o all_members[2] \o documents

Extend(members, documents) == members \o documents

\* pages_fetched += 1
NextPages_stuck(p) == p

NextPages(p) == p + 1

\* `if not new_cursor or new_cursor == cursor: break`
CursorStops_is_none(new_cursor, c) == new_cursor = None \/ new_cursor = c

CursorStops_no_compare(new_cursor, c) == ~Truthy(new_cursor)

CursorStops(new_cursor, c) == ~Truthy(new_cursor) \/ new_cursor = c

\* cursor = new_cursor
NextCursor_stale(c, new_cursor) == c

NextCursor(c, new_cursor) == new_cursor

\* `if pages_fetched > 100: break`
CeilingReached(p) == p > PageLimit

\* the records a double holds, by the name of its corpus
Pool(name) ==
    CASE name = "records" -> Records
      [] name = "bare" -> {Person(FAbsent, <<>>)}
      [] name = "pair" -> {Person(FStr("AfD"), <<>>), Person(FAbsent, <<>>)}
      [] name = "attribution" -> AttributionRecords
      [] name = "labels" -> LabelRecords

\* one call against a double that may hand out fresh cursors for ever
RunawayScenario ==
    [calls |-> {1}, records |-> MaxRecordsRunaway, pages |-> Runaway,
     trace |-> FALSE, inputs |-> Inputs, pool |-> "records"]

\* the same double holding one kind of record, for a call of either tool
\* with a configured key
LoopScenario ==
    [calls |-> {1}, records |-> MaxRecordsRunaway, pages |-> Runaway,
     trace |-> FALSE,
     inputs |-> {in \in Inputs : in.key = "key" /\ in.wahlperiode = 21},
     pool |-> "bare"]

\* one call against a double with a finite corpus, responses traced
TracedScenario ==
    [calls |-> {1}, records |-> MaxRecords, pages |-> MaxPages,
     trace |-> TRUE, inputs |-> Inputs, pool |-> "records"]

\* two calls of one period with configured keys, run in any interleaving
\* against a double that holds two kinds of record, responses traced
TwoCallScenario ==
    [calls |-> {1, 2}, records |-> MaxRecordsTwo, pages |-> MaxPagesTwo,
     trace |-> TRUE,
     inputs |-> {in \in Inputs : in.key = "key" /\ in.wahlperiode = 21},
     pool |-> "pair"]

\* two calls of the server tool, of one period, run in any interleaving
AbandonScenario ==
    [calls |-> {1, 2}, records |-> MaxRecordsTwo, pages |-> MaxPagesTwo,
     trace |-> TRUE,
     inputs |-> {in \in Inputs : in.impl = "server" /\ in.key = "key"
                                     /\ in.wahlperiode = 21},
     pool |-> "pair"]

\* a call with a configured key against a double that hands out fresh
\* cursors for ever and holds two kinds of record
CeilingScenario ==
    [calls |-> {1}, records |-> MaxRecordsCeiling, pages |-> Runaway,
     trace |-> FALSE,
     inputs |-> {in \in Inputs : in.key = "key" /\ in.wahlperiode = 21},
     pool |-> "pair"]

\* one call served a single page of records of every shape
AttributionScenario ==
    [calls |-> {1}, records |-> MaxRecordsAttribution, pages |-> 1,
     trace |-> TRUE, inputs |-> {in \in Inputs : in.key = "key"},
     pool |-> "attribution"]

\* one call of period 21 served a single page of records that share labels
LabelScenario ==
    [calls |-> {1}, records |-> MaxRecordsLabels, pages |-> 1,
     trace |-> TRUE,
     inputs |-> {in \in Inputs : in.key = "key" /\ in.wahlperiode = 21},
     pool |-> "labels"]

\* the server tool and the chat tool called for one period with one
\* credential, each against a double that holds two kinds of record
PairScenario ==
    [calls |-> {1, 2}, records |-> MaxRecordsTwo, pages |-> MaxPagesTwo,
     trace |-> TRUE, inputs |-> Inputs, pool |-> "pair"]

InitWith(sc) ==
    /\ scenario = sc
    /\ pc = [c \in Calls |-> "idle"]
    /\ impl = [c \in Calls |-> "server"]
    /\ api_key = [c \in Calls |-> None]
    /\ wahlperiode = [c \in Calls |-> 0]
    /\ all_members = [c \in Calls |-> <<>>]
    /\ cursor = [c \in Calls |-> None]
    /\ pages_fetched = [c \in Calls |-> 0]
    /\ result = [c \in Calls |-> <<>>]
    /\ outstanding = [c \in Calls |-> 0]
    /\ last_request = [c \in Calls |-> NoRequest]
    /\ last_response = [c \in Calls |-> None]
    /\ requests_sent = [c \in Calls |-> 0]
    /\ fetched = [c \in Calls |-> 0]
    /\ pages_seen = [c \in Calls |-> <<>>]

\* entry of get_party_distribution up to the head of the loop
Call(c) ==
    /\ c \in scenario.calls
    /\ pc[c] = "idle"
    /\ \E in \in scenario.inputs :
        /\ impl' = [impl EXCEPT ![c] = in.impl]
        /\ api_key' = [api_key EXCEPT ![c] = in.key]
        /\ wahlperiode' = [wahlperiode EXCEPT ![c] = in.wahlperiode]
        /\ pc' = [pc EXCEPT ![c] = IF MissingKey(in.impl, in.key)
                                   THEN "config_error" ELSE "fetch"]
    /\ all_members' = [all_members EXCEPT ![c] = <<>>]
    /\ cursor' = [cursor EXCEPT ![c] = None]
    /\ pages_fetched' = [pages_fetched EXCEPT ![c] = 0]
    /\ UNCHANGED <<scenario, result, outstanding, last_request, last_response,
                   requests_sent, fetched, pages_seen>>

\* head of the loop: build params and issue requests.get
SendRequest(c) ==
    /\ pc[c] = "fetch"
    /\ last_request' = [last_request EXCEPT
           ![c] = RequestParams(impl[c], api_key[c], wahlperiode[c], cursor[c])]
    /\ outstanding' = [outstanding EXCEPT ![c] = @ + 1]
    /\ requests_sent' = [requests_sent EXCEPT ![c] = Min(@ + 1, ReqCap)]
    /\ pc' = [pc EXCEPT ![c] = "waiting"]
    /\ UNCHANGED <<scenario, locals, result, last_response, fetched, pages_seen>>

\* requests.get returned a success status with a JSON body: the rest of the
\* loop body and, when the loop ends, the tally and the ranking, which
\* return the distribution or raise
RecvOk(c) ==
    /\ pc[c] = "waiting"
    /\ \E documents \in SeqsUpTo(Pool(scenario.pool), scenario.records - fetched[c]),
          new_cursor \in CursorValues :
        \* the double serves at most scenario.pages pages
        /\ (Truthy(new_cursor) /\ new_cursor # last_request[c].cursor)
               => pages_fetched[c] + 1 < scenario.pages
        /\ LET members == Extend(all_members[c], documents)
               pages == NextPages(pages_fetched[c])
               stops == CursorStops(new_cursor, cursor[c])
               next == IF stops THEN cursor[c] ELSE NextCursor(cursor[c], new_cursor)
               break == stops \/ CeilingReached(pages)
               raises == TallyRaises(members, wahlperiode[c])
           IN /\ all_members' = [all_members EXCEPT ![c] = members]
              /\ pages_fetched' = [pages_fetched EXCEPT ![c] = pages]
              /\ cursor' = [cursor EXCEPT ![c] = next]
              /\ pc' = [pc EXCEPT ![c] = IF ~break THEN "fetch"
                                         ELSE IF raises THEN "tally_error"
                                         ELSE "done"]
              /\ result' = [result EXCEPT ![c] =
                     IF break /\ ~raises
                     THEN PartyDistribution(members, wahlperiode[c]) ELSE @]
        /\ last_response' = [last_response EXCEPT ![c] = new_cursor]
        /\ fetched' = [fetched EXCEPT ![c] = @ + Len(documents)]
        /\ pages_seen' = [pages_seen EXCEPT ![c] =
               IF scenario.trace
               THEN Append(@, [documents |-> documents, cursor |-> new_cursor])
               ELSE @]
    /\ outstanding' = [outstanding EXCEPT ![c] = @ - 1]
    /\ UNCHANGED <<scenario, impl, api_key, wahlperiode, last_request, requests_sent>>

\* a failure handled by issuing the request again
RecvFail_retry(c) ==
    /\ pc[c] = "waiting"
    /\ pc' = [pc EXCEPT ![c] = "fetch"]
    /\ outstanding' = [outstanding EXCEPT ![c] = @ - 1]
    /\ UNCHANGED <<scenario, locals, result, last_request, last_response,
                   requests_sent, fetched, pages_seen>>

\* requests.get raised or raise_for_status raised: the call ends with it
RecvFail(c) ==
    /\ pc[c] = "waiting"
    /\ pc' = [pc EXCEPT ![c] = "transport_error"]
    /\ outstanding' = [outstanding EXCEPT ![c] = @ - 1]
    /\ UNCHANGED <<scenario, locals, result, last_request, last_response,
                   requests_sent, fetched, pages_seen>>

\* the caller gives the call up between two page fetches (a timeout around
\* the whole aggregation): the call makes no further step and what it had
\* accumulated is dropped with it
Abandon(c) ==
    /\ pc[c] = "fetch"
    /\ pages_fetched[c] >= 1
    /\ pc' = [pc EXCEPT ![c] = "abandoned"]
    /\ UNCHANGED <<scenario, locals, result, outstanding, last_request,
                   last_response, requests_sent, fetched, pages_seen>>

Next ==
    \E c \in Calls :
        \/ Call(c)
        \/ SendRequest(c)
        \/ RecvOk(c)
        \/ RecvFail(c)

\* the tool of each call of a pair
ToolOf == [c \in Calls |-> IF c = 1 THEN "server" ELSE "chat"]

\* entry of both tools, up to the head of their loops, with the same
\* credential configured and the same period asked for
CallBoth ==
    /\ \A c \in Calls : c \in scenario.calls /\ pc[c] = "idle"
    /\ \E in \in scenario.inputs :
        /\ impl' = ToolOf
        /\ api_key' = [c \in Calls |-> in.key]
        /\ wahlperiode' = [c \in Calls |-> in.wahlperiode]
        /\ pc' = [c \in Calls |-> IF MissingKey(ToolOf[c], in.key)
                                  THEN "config_error" ELSE "fetch"]
    /\ all_members' = [c \in Calls |-> <<>>]
    /\ cursor' = [c \in Calls |-> None]
    /\ pages_fetched' = [c \in Calls |-> 0]
    /\ UNCHANGED <<scenario, result, outstanding, last_request, last_response,
                   requests_sent, fetched, pages_seen>>

NextPair ==
    \/ CallBoth
    \/ \E c \in Calls :
        \/ SendRequest(c)
        \/ RecvOk(c)
        \/ RecvFail(c)

NextAbandon ==
    \/ Next
    \/ \E c \in Calls : Abandon(c)

Init == InitWith(RunawayScenario)
InitLoop == InitWith(LoopScenario)
InitTraced == InitWith(TracedScenario)
InitTwo == InitWith(TwoCallScenario)
InitAttribution == InitWith(AttributionScenario)
InitCeiling == InitWith(CeilingScenario)
InitAbandon == InitWith(AbandonScenario)
InitLabels == InitWith(LabelScenario)
InitPair == InitWith(PairScenario)

Spec == Init /\ [][Next]_vars
SpecTraced == InitTraced /\ [][Next]_vars
SpecTwo == InitTwo /\ [][Next]_vars
SpecAttribution == InitAttribution /\ [][Next]_vars
SpecCeiling == InitCeiling /\ [][Next]_vars
SpecAbandon == InitAbandon /\ [][NextAbandon]_vars
SpecLabels == InitLabels /\ [][Next]_vars
SpecPair == InitPair /\ [][NextPair]_vars

\* every page request returns or fails, and the caller's thread keeps running
Fairness ==
    \A c \in Calls :
        /\ WF_vars(SendRequest(c))
        /\ WF_vars(RecvOk(c) \/ RecvFail(c))

FairSpec == InitLoop /\ [][Next]_vars /\ Fairness

(***************************************************************************)
(* Properties.                                                             *)
(***************************************************************************)
Abs(x) == IF x < 0 THEN -x ELSE x

RECURSIVE SumCounts(_)
SumCounts(entries) ==
    IF entries = <<>> THEN 0 ELSE Head(entries).count + SumCounts(Tail(entries))

RECURSIVE SumPercentages(_)
SumPercentages(entries) ==
    IF entries = <<>> THEN 0 ELSE Head(entries).percentage + SumPercentages(Tail(entries))

RECURSIVE SumDocuments(_)
SumDocuments(pages) ==
    IF pages = <<>> THEN 0 ELSE Len(Head(pages).documents) + SumDocuments(Tail(pages))

\* the call's latest page request was answered with a success
Answered(c) == pages_fetched[c] >= 1 /\ requests_sent[c] = pages_fetched[c]

\* a finished call issues nothing more
DoneIsFinal(c) ==
    pc[c] = "done" => /\ pc'[c] = "done"
                      /\ requests_sent'[c] = requests_sent[c]
                      /\ outstanding'[c] = 0

\* C1: a call never issues more than 100 page requests, whatever the
\* upstream answers.
C1_RequestsWithinCeiling ==
    \A c \in Calls : requests_sent[c] <= PageLimit

\* C2: once a call has entered the pagination loop it eventually ends (with a
\* distribution or a transport error), for every sequence of responses,
\* provided every page request returns or fails.
C2_LoopTerminates ==
    \A c \in Calls : [](pc[c] \in {"fetch", "waiting"} => <>(pc[c] \in Terminal))

\* a call that was fed a fresh cursor on every page and still ended
C2_Witness ==
    \E c \in Calls : pc[c] = "done" /\ pages_fetched[c] > PageLimit
                     /\ Truthy(last_response[c])
                     /\ last_response[c] # last_request[c].cursor

\* C3: a response without a cursor (absent, null or empty) ends the loop at
\* once: the call is finished with no request outstanding and as many
\* requests as pages, one request if it was the first response, and a
\* finished call issues nothing more.
C3_NoCursorStops ==
    /\ [](\A c \in Calls :
            (Answered(c) /\ ~Truthy(last_response[c]))
                => /\ pc[c] = "done"
                   /\ outstanding[c] = 0
                   /\ (pages_fetched[c] = 1 => requests_sent[c] = 1))
    /\ [][\A c \in Calls : DoneIsFinal(c)]_vars

\* the first response carried an empty cursor and the call ended after it
C3_Witness ==
    \E c \in Calls : pc[c] = "done" /\ pages_fetched[c] = 1
                     /\ requests_sent[c] = 1 /\ last_response[c] = ""

\* C4: a response whose cursor is the cursor its request carried ends the
\* loop at once; so of two successive responses with the same cursor the
\* second is the last page of the call; and a finished call issues nothing
\* more.
C4_SameCursorStops ==
    /\ [](\A c \in Calls :
            /\ (Answered(c) /\ Truthy(last_response[c])
                    /\ last_response[c] = last_request[c].cursor)
                   => (pc[c] = "done" /\ outstanding[c] = 0)
            /\ \A k \in 1..(Len(pages_seen[c]) - 1) :
                   (Truthy(pages_seen[c][k].cursor)
                        /\ pages_seen[c][k].cursor = pages_seen[c][k + 1].cursor)
                       => (k + 1 = Len(pages_seen[c]) /\ pc[c] = "done"))
    /\ [][\A c \in Calls : DoneIsFinal(c)]_vars

\* two successive responses carried the same token and the call ended
C4_Witness ==
    \E c \in Calls : /\ pc[c] = "done" /\ Len(pages_seen[c]) = 2
                     /\ pages_seen[c][1].cursor = "c1"
                     /\ pages_seen[c][2].cursor = "c1"
                     /\ last_request[c].cursor = "c1"

\* C5: a call has at most one page request outstanding; its first request
\* carries no cursor and every later request carries the cursor of the
\* response just before it.
C5_SequentialChaining ==
    \A c \in Calls :
        /\ outstanding[c] \in {0, 1}
        /\ outstanding[c] = 1 <=> pc[c] = "waiting"
        /\ requests_sent[c] = 1 => last_request[c].cursor = None
        /\ (requests_sent[c] >= 2 /\ outstanding[c] = 1)
               => (Truthy(last_response[c])
                   /\ last_request[c].cursor = last_response[c])
        /\ (requests_sent[c] >= 2 /\ outstanding[c] = 1 /\ scenario.trace)
               => last_request[c].cursor = pages_seen[c][Len(pages_seen[c])].cursor

\* both calls wait for their second page, each with its own cursor
C5_Witness ==
    /\ outstanding[1] = 1 /\ requests_sent[1] = 2 /\ last_request[1].cursor = "c1"
    /\ outstanding[2] = 1 /\ requests_sent[2] = 2 /\ last_request[2].cursor = "c2"

\* C6: the counts of a returned distribution add up to the number of records
\* received over all pages of the call.
C6_CountsSumToFetched ==
    \A c \in Calls :
        pc[c] = "done" => /\ SumCounts(result[c]) = fetched[c]
                          /\ fetched[c] = SumDocuments(pages_seen[c])

\* records of two pages, tallied under two labels
C6_Witness ==
    \E c \in Calls : /\ pc[c] = "done" /\ Len(pages_seen[c]) = 2
                     /\ pages_seen[c][1].documents # <<>>
                     /\ pages_seen[c][2].documents # <<>>
                     /\ Len(result[c]) = 2 /\ fetched[c] = 3

\* C7: each percentage is count / total * 100 to the nearest hundredth, total
\* being the number of records received; with no record the distribution is
\* empty.
C7_PercentageRounded ==
    \A c \in Calls :
        pc[c] = "done" =>
            /\ \A i \in 1..Len(result[c]) :
                   /\ fetched[c] > 0
                   /\ 2 * Abs(result[c][i].percentage * fetched[c]
                                - result[c][i].count * 10000) <= fetched[c]
            /\ fetched[c] = 0 => result[c] = <<>>

\* counts 2 and 1 out of 3 give 66.67 and 33.33
C7_Witness ==
    \E c \in Calls : pc[c] = "done"
                     /\ result[c] = <<Entry("AfD", 2, 6667), Entry("SPD", 1, 3333)>>

\* C8: with at least one record the percentages add up to 100.00 to within
\* half a hundredth per entry.
C8_PercentagesSumTo100 ==
    \A c \in Calls :
        (pc[c] = "done" /\ fetched[c] > 0)
            => 2 * Abs(SumPercentages(result[c]) - 10000) <= Len(result[c])

\* three labels of one record each: 33.33 three times, 99.99 in all
C8_Witness ==
    \E c \in Calls : pc[c] = "done" /\ Len(result[c]) = 3
                     /\ SumPercentages(result[c]) = 9999

\* C9: adjacent entries are in descending order of count and, at equal
\* count, in ascending order of label.
C9_Ranked ==
    \A c \in Calls :
        pc[c] = "done" =>
            \A i \in 1..(Len(result[c]) - 1) :
                \/ result[c][i].count > result[c][i + 1].count
                \/ /\ result[c][i].count = result[c][i + 1].count
                   /\ StrLess(result[c][i].fraktion, result[c][i + 1].fraktion)

\* a tie decided by the label, against the order of arrival
C9_Witness ==
    \E c \in Calls : /\ pc[c] = "done" /\ Len(result[c]) = 3
                     /\ result[c][2].count = result[c][3].count
                     /\ PartyOf(all_members[c][1], wahlperiode[c]) = result[c][3].fraktion

\* C10: two calls of the same tool with the same period that received the
\* same sequence of responses return the same distribution, however the two
\* calls were interleaved.
C10_Deterministic ==
    \A c \in Calls : \A d \in Calls :
        (/\ pc[c] = "done" /\ pc[d] = "done"
         /\ impl[c] = impl[d] /\ wahlperiode[c] = wahlperiode[d]
         /\ pages_seen[c] = pages_seen[d])
            => result[c] = result[d]

\* both calls received the same two pages and returned a distribution
C10_Witness ==
    /\ pc[1] = "done" /\ pc[2] = "done" /\ impl[1] = impl[2]
    /\ pages_seen[1] = pages_seen[2] /\ Len(pages_seen[1]) = 2
    /\ result[1] # <<>>

\* count of the entry of label l in a distribution, 0 without such an entry
RECURSIVE CountOf(_, _)
CountOf(entries, l) ==
    IF entries = <<>> THEN 0
    ELSE IF Head(entries).fraktion = l THEN Head(entries).count
    ELSE CountOf(Tail(entries), l)

\* labels that occur in the records of the model
Labels == {"", "AfD", "CDU", "Linke", "SPD", "Unbekannt", "fraktionslos"}

\* the members of call c that satisfy P
Members(c, P(_)) == {i \in 1..Len(all_members[c]) : P(all_members[c][i])}

\* the direct fraktion field is a non-empty sequence that starts with l, or
\* it is the non-empty string l
HasDirect(m, l) ==
    \/ m.fraktion.kind = "list" /\ m.fraktion.list # <<>> /\ m.fraktion.list[1] = l
    \/ m.fraktion.kind = "str" /\ m.fraktion.str # "" /\ m.fraktion.str = l

\* C11 as claimed: a record whose fraktion is a non-empty sequence is counted
\* under the first element of it, a record whose fraktion is a non-empty
\* string under that string, whatever its roles are.
C11_DirectWins_AsClaimed ==
    \A c \in Calls :
        pc[c] = "done" =>
            \A l \in Labels :
                LET HasL(m) == HasDirect(m, l) IN
                CountOf(result[c], l) >= Cardinality(Members(c, HasL))

\* C11 as amended: a record whose fraktion is a sequence with a non-empty
\* first element is counted under that element, a record whose fraktion is a
\* non-empty string under that string, whatever its roles are.
C11_DirectWins ==
    \A c \in Calls :
        pc[c] = "done" =>
            \A l \in Labels \ {""} :
                LET HasL(m) == HasDirect(m, l) IN
                CountOf(result[c], l) >= Cardinality(Members(c, HasL))

\* a record with fraktion SPD, Linke and a role of another party for the
\* period was counted under SPD
C11_Witness ==
    \E c \in Calls :
        /\ pc[c] = "done"
        /\ all_members[c] = <<Person(FList(<<"SPD", "Linke">>), <<Role({20, 21}, "CDU")>>)>>
        /\ result[c] = <<Entry("SPD", 1, 10000)>>

\* the direct fraktion field yields no label
NoDirect(m) ==
    \/ m.fraktion.kind \in {"absent", "null"}
    \/ m.fraktion.kind = "list"
           /\ (m.fraktion.list = <<>> \/ m.fraktion.list[1] \in {None, ""})
    \/ m.fraktion.kind = "str" /\ m.fraktion.str = ""

\* the role is of period w and carries a fraktion
RoleMatches(role, w) ==
    w \in role.wahlperiode_nummer /\ role.fraktion \notin {None, ""}

\* the first role of m, in the given order, that matches carries l
FirstMatchIs(m, w, l) ==
    \E k \in 1..Len(m.person_roles) :
        /\ RoleMatches(m.person_roles[k], w)
        /\ m.person_roles[k].fraktion = l
        /\ \A j \in 1..(k - 1) : ~RoleMatches(m.person_roles[j], w)

\* C12: a record without direct label is counted under the fraktion of its
\* first role, in order, that is of the requested period and has a non-empty
\* fraktion; other roles before it are skipped, roles after it are not used.
C12_FirstMatchingRole ==
    \A c \in Calls :
        pc[c] = "done" =>
            \A l \in Labels :
                LET ByRole(m) == NoDirect(m) /\ FirstMatchIs(m, wahlperiode[c], l) IN
                CountOf(result[c], l) >= Cardinality(Members(c, ByRole))

\* a role of the period without fraktion was skipped and the next one used
C12_Witness ==
    \E c \in Calls :
        /\ pc[c] = "done" /\ wahlperiode[c] = 21
        /\ all_members[c] = <<Person(FAbsent, <<Role({21}, None), Role({20, 21}, "CDU")>>)>>
        /\ result[c] = <<Entry("CDU", 1, 10000)>>

\* C13: every record is counted under exactly one label: the counts add up
\* to the number of records, no label is empty, and a record without direct
\* label and without matching role is counted under Unbekannt.
C13_EveryRecordLabelled ==
    \A c \in Calls :
        pc[c] = "done" =>
            LET Unlabelled(m) ==
                    /\ NoDirect(m)
                    /\ \A k \in 1..Len(m.person_roles) :
                           ~RoleMatches(m.person_roles[k], wahlperiode[c])
            IN /\ SumCounts(result[c]) = Len(all_members[c])
               /\ Len(all_members[c]) = fetched[c]
               /\ \A i \in 1..Len(result[c]) : result[c][i].fraktion \notin {None, ""}
               /\ CountOf(result[c], "Unbekannt") >= Cardinality(Members(c, Unlabelled))

\* a record with a null fraktion and a role of another period only
C13_Witness ==
    \E c \in Calls :
        /\ pc[c] = "done" /\ wahlperiode[c] = 21
        /\ all_members[c] = <<Person(FNull, <<Role({20}, "fraktionslos")>>)>>
        /\ result[c] = <<Entry("Unbekannt", 1, 10000)>>

C15_TransportErrorAborts ==
    /\ [](\A c \in Calls :
            pc[c] = "transport_error"
                => (outstanding[c] = 0 /\ result[c] = <<>>
                    /\ requests_sent[c] = pages_fetched[c] + 1))
    /\ [][\A c \in Calls :
            /\ (outstanding'[c] < outstanding[c] /\ pages_fetched'[c] = pages_fetched[c])
                   => pc'[c] = "transport_error"
            /\ pc[c] = "transport_error"
                   => (pc'[c] = "transport_error" /\ result'[c] = <<>>
                       /\ requests_sent'[c] = requests_sent[c]
                       /\ outstanding'[c] = 0)]_vars

\* the second page request failed after a first page with records
C15_Witness ==
    \E c \in Calls : /\ pc[c] = "transport_error" /\ pages_fetched[c] = 1
                     /\ requests_sent[c] = 2 /\ all_members[c] # <<>>
                     /\ result[c] = <<>>

\* the latest response carried a cursor other than the one sent
FreshCursor(c) ==
    Truthy(last_response[c]) /\ last_response[c] # last_request[c].cursor

\* C16: a call whose loop the page ceiling stopped (its last response still
\* carried a fresh cursor) has not failed: it is done with a distribution
\* over every record fetched, the last page included, whose counts add up to
\* their number and which is ranked by count and then label.
C16_CeilingReturnsPartial ==
    \A c \in Calls :
        (Answered(c) /\ FreshCursor(c) /\ pc[c] # "fetch")
            => /\ pc[c] = "done"
               /\ pages_fetched[c] > PageLimit
               /\ Len(all_members[c]) = fetched[c]
               /\ SumCounts(result[c]) = fetched[c]
               /\ \A i \in 1..(Len(result[c]) - 1) :
                      \/ result[c][i].count > result[c][i + 1].count
                      \/ /\ result[c][i].count = result[c][i + 1].count
                         /\ StrLess(result[c][i].fraktion, result[c][i + 1].fraktion)

\* the ceiling stopped a call that had fetched records of two labels
C16_Witness ==
    \E c \in Calls : /\ pc[c] = "done" /\ pages_fetched[c] > PageLimit
                     /\ FreshCursor(c) /\ fetched[c] = 2
                     /\ result[c] = <<Entry("AfD", 1, 5000), Entry("Unbekannt", 1, 5000)>>

\* C17: the tally and ranking never raise, whatever records were fetched,
\* records without fraktion and roles included: a call whose loop has ended
\* is done with a distribution of at most one entry per record, and with the
\* empty distribution when no record was fetched.
C17_TallyNeverRaises ==
    \A c \in Calls :
        /\ pc[c] # "tally_error"
        /\ (Answered(c) /\ ~FreshCursor(c)) => pc[c] = "done"
        /\ pc[c] = "done" =>
               /\ Len(result[c]) <= fetched[c]
               /\ fetched[c] = 0 => result[c] = <<>>
               /\ fetched[c] > 0 => result[c] # <<>>

\* a record without fraktion and without roles went through the tally
C17_Witness ==
    \E c \in Calls :
        /\ pc[c] = "done"
        /\ all_members[c] = <<Person(FAbsent, <<>>)>>
        /\ result[c] = <<Entry("Unbekannt", 1, 10000)>>

\* the documents of the pages in the order of the pages
RECURSIVE Concat(_)
Concat(pages) ==
    IF pages = <<>> THEN <<>> ELSE Head(pages).documents \o Concat(Tail(pages))

\* everything the model keeps for call c
CallState(c) ==
    <<pc[c], impl[c], api_key[c], wahlperiode[c], all_members[c], cursor[c],
      pages_fetched[c], result[c], outstanding[c], last_request[c],
      last_response[c], requests_sent[c], fetched[c], pages_seen[c]>>

\* C18: under every interleaving of two calls, and with either call given up
\* between two page fetches, a step of one call leaves the accumulator,
\* cursor, page counter and result of the other as they are, and a finished
\* call returns the distribution of its own period and its own pages, as
\* when run alone.
C18_CallsDoNotInterfere ==
    /\ [](\A c \in Calls :
            /\ pc[c] \notin {"idle", "config_error"}
                   => (all_members[c] = Concat(pages_seen[c])
                       /\ pages_fetched[c] = Len(pages_seen[c]))
            /\ pc[c] = "done"
                   => result[c] = PartyDistribution(Concat(pages_seen[c]), wahlperiode[c]))
    /\ [][\A c \in Calls : \A d \in Calls \ {c} :
            CallState(c)' # CallState(c) => CallState(d)' = CallState(d)]_vars

\* one call was given up with records accumulated, the other finished with
\* two pages
C18_Witness ==
    /\ pc[1] = "abandoned" /\ all_members[1] # <<>>
    /\ pc[2] = "done" /\ Len(pages_seen[2]) = 2 /\ result[2] # <<>>

\* C19: at every point of a call the accumulator is the concatenation, in
\* the order of the requests, of the documents of every page received so
\* far, the page that stopped the loop included.
C19_AccumulatorIsConcatenation ==
    \A c \in Calls :
        /\ all_members[c] = Concat(pages_seen[c])
        /\ pc[c] \in {"fetch", "waiting", "done", "transport_error"}
               => Len(pages_seen[c]) = pages_fetched[c]

\* two pages with different documents, the second without cursor
C19_Witness ==
    \E c \in Calls :
        /\ pc[c] = "done" /\ Len(pages_seen[c]) = 2
        /\ pages_seen[c][2].cursor = None
        /\ pages_seen[c][1].documents = <<Person(FStr("AfD"), <<>>)>>
        /\ pages_seen[c][2].documents = <<Person(FAbsent, <<>>), Person(FStr("AfD"), <<>>)>>
        /\ all_members[c] = <<Person(FStr("AfD"), <<>>), Person(FAbsent, <<>>),
                              Person(FStr("AfD"), <<>>)>>

\* the parameters of a page request other than the cursor
Filters(request) ==
    <<request.format, request.apikey, request.wahlperiode, request.zuordnung>>

\* C20: every page request of a call carries format json, the API key of
\* the call and the requested period as f.wahlperiode; these and the
\* institutional filter are the same in every request of the call, and the
\* cursor parameter is either left out or a non-empty token.
C20_RequestParameters ==
    /\ [](\A c \in Calls :
            requests_sent[c] >= 1
                => /\ last_request[c].format = "json"
                   /\ last_request[c].apikey = api_key[c]
                   /\ last_request[c].wahlperiode = wahlperiode[c]
                   /\ last_request[c].wahlperiode \in Periods
                   /\ last_request[c].zuordnung = (IF impl[c] = "server" THEN "BT" ELSE None)
                   /\ last_request[c].cursor \in {None} \cup Cursors)
    /\ [][\A c \in Calls :
            (requests_sent[c] >= 1 /\ requests_sent'[c] > requests_sent[c])
                => /\ Filters(last_request[c])' = Filters(last_request[c])
                   /\ last_request'[c].cursor = cursor[c]]_vars

\* the second request of a server call: same filters, with the cursor
C20_Witness ==
    \E c \in Calls :
        /\ requests_sent[c] = 2 /\ outstanding[c] = 1
        /\ last_request[c] = [format |-> "json", apikey |-> "key", wahlperiode |-> 20,
                              zuordnung |-> "BT", cursor |-> "c2"]

\* the label record m is to be counted under for period w
ResolvesTo(m, w, l) ==
    \/ l # "" /\ HasDirect(m, l)
    \/ NoDirect(m) /\ FirstMatchIs(m, w, l)
    \/ /\ NoDirect(m) /\ l = "Unbekannt"
       /\ \A k \in 1..Len(m.person_roles) : ~RoleMatches(m.person_roles[k], w)

\* C21: in every returned distribution the labels are pairwise distinct,
\* every entry has a count of at least one and a non-empty label, and the
\* count of a label is the number of records that resolve to it, where a
\* record whose direct value is empty (an empty first element of the
\* fraktion sequence included) resolves to its role-derived label or to
\* Unbekannt.
C21_DistinctNonEmptyLabels ==
    \A c \in Calls :
        pc[c] = "done" =>
            /\ \A i \in 1..Len(result[c]) : \A j \in 1..Len(result[c]) :
                   i # j => result[c][i].fraktion # result[c][j].fraktion
            /\ \A i \in 1..Len(result[c]) :
                   /\ result[c][i].count >= 1
                   /\ result[c][i].fraktion \in Labels \ {""}
            /\ \A l \in Labels :
                   LET ToL(m) == ResolvesTo(m, wahlperiode[c], l) IN
                   CountOf(result[c], l) = Cardinality(Members(c, ToL))

\* two records with an empty first element, one of them with a role of the
\* period, next to a record with the direct label of that role
C21_Witness ==
    \E c \in Calls :
        /\ pc[c] = "done"
        /\ all_members[c] = <<Person(FList(<<"", "SPD">>), <<>>),
                              Person(FStr("CDU"), <<>>),
                              Person(FList(<<"", "SPD">>), <<Role({21}, "CDU")>>)>>
        /\ result[c] = <<Entry("CDU", 2, 6667), Entry("Unbekannt", 1, 3333)>>

\* the upstream responses call c has consumed: the pages, and whether a
\* failure followed them
Responses(c) == <<pages_seen[c], pc[c] = "transport_error">>

\* where call c stands, a request in flight counted as not yet answered
Phase(c) == IF pc[c] = "waiting" THEN "fetch" ELSE pc[c]

\* requests of call c that were answered
Answers(c) == requests_sent[c] - outstanding[c]

\* the server call 1 and the chat call 2, whenever they have consumed the
\* same responses, stand at the same point with the same accumulator,
\* cursor and distribution, have had the same number of requests answered,
\* and the same request, apart from the institutional filter, in flight
SameBehaviour ==
    Responses(1) = Responses(2) =>
        /\ Phase(1) = Phase(2)
        /\ all_members[1] = all_members[2]
        /\ cursor[1] = cursor[2]
        /\ pages_fetched[1] = pages_fetched[2]
        /\ result[1] = result[2]
        /\ Answers(1) = Answers(2)
        /\ pc[1] = pc[2] =>
               /\ requests_sent[1] = requests_sent[2]
               /\ last_request[1].cursor = last_request[2].cursor
               /\ last_request[1].format = last_request[2].format
               /\ last_request[1].apikey = last_request[2].apikey
               /\ last_request[1].wahlperiode = last_request[2].wahlperiode

\* C22: the server tool and the chat tool, called for the same period in
\* the same configuration and driven by the same upstream responses, issue
\* the same number of requests with the same cursors, stop on the same
\* response and return identical distributions; only the institutional
\* filter of their requests differs.
C22_ImplementationsEquivalent ==
    (pc[1] # "idle" /\ pc[2] # "idle") => SameBehaviour

\* the same, for a credential that is either not configured or not empty
C22_EquivalentWithCredential ==
    (pc[1] # "idle" /\ pc[2] # "idle" /\ api_key[1] # "") => SameBehaviour

\* both tools stopped on the second of the same two pages with the same
\* distribution
C22_Witness ==
    /\ pc[1] = "done" /\ pc[2] = "done"
    /\ impl[1] = "server" /\ impl[2] = "chat"
    /\ Len(pages_seen[1]) = 2 /\ pages_seen[1] = pages_seen[2]
    /\ result[1] = result[2] /\ result[1] # <<>>
    /\ requests_sent[1] = 2 /\ requests_sent[2] = 2

=============================================================================
